---------------------------- MODULE Spec2Model ----------------------------
(***************************************************************************)
(* A model of the word-alignment corpus pipeline: the alignment scorer     *)
(* (metrics.py: compute_precision, compute_recall, compute_aer), the       *)
(* corpus parser (preprocessing.py: extract_sentences), the vocabulary     *)
(* builder (get_token_to_index) and the tokenizer (tokenize_sents).        *)
(*                                                                         *)
(* Every function of the program is pure apart from the parser's working   *)
(* file, so each is an operator computed the way the code computes it, and *)
(* three specifications apply them to inputs drawn from bounded sets:      *)
(*   SpecMetrics, SpecParse, SpecVocab.                                    *)
(***************************************************************************)
EXTENDS Integers, Sequences, FiniteSets, TLC

VARIABLES
    reference,      \* metrics: List[LabeledAlignment]
    predicted,      \* metrics: List[List[Tuple[int, int]]]
    result,         \* metrics: the outcome of the last scorer call
    document,       \* parser: the children of the XML root, one per block
    i,              \* parser: the outer loop index of extract_sentences
    s1, s2,         \* parser: the locals s1, s2 (token lists)
    p1, p2,         \* parser: the locals p1, p2 (position-pair lists)
    sentence_pairs, \* parser: the list being accumulated; vocab: the corpus
    alignments,     \* parser: the list being accumulated
    parsed,         \* parser: the outcome of extract_sentences
    freq_cutoff,    \* vocab: the freq_cutoff argument (None or a number)
    tie,            \* vocab: how this build's argsort orders equal counts
    vocab,          \* vocab: the results of the calls of get_token_to_index
    tokenized       \* vocab: the outcome of tokenize_sents

vars == <<reference, predicted, result, document, i, s1, s2, p1, p2,
          sentence_pairs, alignments, parsed, freq_cutoff, tie, vocab,
          tokenized>>

metricsVars == <<reference, predicted, result>>
parserVars == <<document, i, s1, s2, p1, p2, alignments, parsed>>
vocabVars == <<freq_cutoff, tie, vocab, tokenized>>

\* Python's None where a string is expected, and where a text is expected.
None == "None"

NoText == <<"None">>

(***************************************************************************)
(* Python built-ins used by the code.                                      *)
(***************************************************************************)
\* set(xs): the set of the elements of a list.
set(xs) == {xs[n] : n \in DOMAIN xs}

\* len(s) of a set.
len(s) == Cardinality(s)

Min(a, b) == IF a <= b THEN a ELSE b

\* zip(xs, ys): pairs up to the end of the shorter list.
zip(xs, ys) == [k \in 1..Min(Len(xs), Len(ys)) |-> <<xs[k], ys[k]>>]

\* The lists of length 0..n over a set.
ListsUpTo(S, n) == UNION {[1..m -> S] : m \in 0..n}

\* sum of F(1), ..., F(n).
Sum(F(_), n) ==
    LET S[k \in 0..n] == IF k = 0 THEN 0 ELSE S[k - 1] + F(k)
    IN  S[n]

(***************************************************************************)
(* metrics.py                                                              *)
(***************************************************************************)
\* Lines 25-26: s1 = set(k1.possible); s1.update(k1.sure).
AllowedSet_PossibleOnly(k1) == set(k1.possible)

AllowedSet(k1) == set(k1.possible) \union set(k1.sure)

\* Line 29 and line 55: len(s1.intersection(s2)).
IntersectionSize_NoIntersect(a, b) == len(a)

IntersectionSize(a, b) == len(a \intersect b)

\* Lines 51-52, 54: k1 = k1.sure; s1 = set(k1); ... len(s1).
SureSet(k1) == set(k1.sure)

SureSize_ListLen(k1) == Len(k1.sure)

SureSize(k1) == len(SureSet(k1))

\* Lines 22-31: the loop of compute_precision over zip(reference, predicted),
\* from pair k on, with the accumulators sum_2 and sum_predicted.
RECURSIVE PrecisionLoop(_, _, _, _)
PrecisionLoop(pairs, k, sum_2, sum_predicted) ==
    IF k > Len(pairs) THEN <<sum_2, sum_predicted>>
    ELSE LET k1 == pairs[k][1]
             k2 == pairs[k][2]
             a == AllowedSet(k1)
             b == set(k2)
         IN  PrecisionLoop(pairs, k + 1,
                           sum_2 + IntersectionSize(a, b),
                           sum_predicted + len(b))

compute_precision(ref, pred) == PrecisionLoop(zip(ref, pred), 1, 0, 0)

\* Lines 48-57: the loop of compute_recall.
RECURSIVE RecallLoop(_, _, _, _)
RecallLoop(pairs, k, sum_2, sum_sure) ==
    IF k > Len(pairs) THEN <<sum_2, sum_sure>>
    ELSE LET k1 == pairs[k][1]
             k2 == pairs[k][2]
         IN  RecallLoop(pairs, k + 1,
                        sum_2 + IntersectionSize(SureSet(k1), set(k2)),
                        sum_sure + SureSize(k1))

compute_recall(ref, pred) == RecallLoop(zip(ref, pred), 1, 0, 0)

\* Lines 73-75: 1 - (ap + sa) / (a + s).  Both operands of / are Python ints,
\* so a zero divisor raises ZeroDivisionError out of the division itself; the
\* function holds no check, no raise and no handler.  The quotient is kept
\* exact as the fraction num/den = ((a + s) - (ap + sa)) / (a + s).
compute_aer(ref, pred) ==
    LET P == compute_precision(ref, pred)
        R == compute_recall(ref, pred)
        ap == P[1]
        a == P[2]
        sa == R[1]
        s == R[2]
    IN  IF a + s = 0
        THEN [kind |-> "uncaught", exc |-> "ZeroDivisionError"]
        ELSE [kind |-> "return", num |-> (a + s) - (ap + sa), den |-> a + s]

(***************************************************************************)
(* SpecMetrics: the scorer applied to bounded inputs.                      *)
(***************************************************************************)
\* The largest number of sentences in reference and in predicted.
MaxSent == 2

\* The sure, possible and predicted lists a sentence is drawn from: lists of
\* 1-based position pairs, with and without duplicates, with sure inside and
\* outside possible, and with predicted pairs inside and outside both.
SureLists == {<<>>, <<<<1, 1>>>>, <<<<1, 1>>, <<1, 1>>>>, <<<<1, 1>>, <<2, 2>>>>}

PossibleLists == {<<>>, <<<<2, 2>>>>, <<<<1, 1>>, <<2, 2>>>>}

PredictedLists ==
    {<<>>, <<<<1, 1>>, <<1, 1>>>>, <<<<1, 1>>, <<2, 2>>>>, <<<<1, 2>>>>}

\* preprocessing.py, lines 25-32: LabeledAlignment(sure, possible).
LabeledAlignment == [sure : SureLists, possible : PossibleLists]

\* The variables of the other components, idle.
ParserIdle ==
    /\ document = <<>> /\ i = 0
    /\ s1 = <<>> /\ s2 = <<>> /\ p1 = <<>> /\ p2 = <<>>
    /\ alignments = <<>>
    /\ parsed = [kind |-> "idle"]

VocabIdle ==
    /\ freq_cutoff = <<>> /\ tie = <<>> /\ vocab = <<>>
    /\ tokenized = [kind |-> "idle"]

MetricsIdle ==
    /\ reference = <<>> /\ predicted = <<>>
    /\ result = [fn |-> "none"]

InitMetrics ==
    /\ reference \in ListsUpTo(LabeledAlignment, MaxSent)
    /\ predicted \in ListsUpTo(PredictedLists, MaxSent)
    /\ result = [fn |-> "none"]
    /\ sentence_pairs = <<>>
    /\ ParserIdle
    /\ VocabIdle

\* A call of compute_precision(reference, predicted).
CallPrecision ==
    /\ result.fn = "none"
    /\ result' = [fn |-> "compute_precision", kind |-> "return",
                  value |-> compute_precision(reference, predicted)]
    /\ UNCHANGED <<reference, predicted, sentence_pairs, parserVars, vocabVars>>

\* A call of compute_recall(reference, predicted).
CallRecall ==
    /\ result.fn = "none"
    /\ result' = [fn |-> "compute_recall", kind |-> "return",
                  value |-> compute_recall(reference, predicted)]
    /\ UNCHANGED <<reference, predicted, sentence_pairs, parserVars, vocabVars>>

\* A call of compute_aer(reference, predicted).
CallAer ==
    /\ result.fn = "none"
    /\ result' = [fn |-> "compute_aer"] @@ compute_aer(reference, predicted)
    /\ UNCHANGED <<reference, predicted, sentence_pairs, parserVars, vocabVars>>

NextMetrics == CallPrecision \/ CallRecall \/ CallAer

SpecMetrics == InitMetrics /\ [][NextMetrics]_vars

(***************************************************************************)
(* The scorer's claims.                                                    *)
(***************************************************************************)
SameLength == Len(reference) = Len(predicted)

\* The per-sentence quantities the claims speak of, as sets.
AllowedMatches(k) ==
    Cardinality(set(predicted[k])
                \intersect (set(reference[k].sure) \union set(reference[k].possible)))

SureMatches(k) == Cardinality(set(predicted[k]) \intersect set(reference[k].sure))

PredictedCount(k) == Cardinality(set(predicted[k]))

SureCount(k) == Cardinality(set(reference[k].sure))

HasDuplicate(xs) == Len(xs) > Cardinality(set(xs))

\* C1: for reference and predicted of the same length compute_precision
\* returns (I, P), I the sum over the sentences of
\* |set(predicted[k]) /\ (set(sure[k]) \/ set(possible[k]))| and P the sum of
\* |set(predicted[k])|: a duplicate predicted pair counts once, and sure[k]
\* need not be a subset of possible[k].
C1_PrecisionContract ==
    (result.fn = "compute_precision" /\ SameLength) =>
        /\ result.kind = "return"
        /\ result.value = <<Sum(AllowedMatches, Len(predicted)),
                            Sum(PredictedCount, Len(predicted))>>

\* C1's case: two sentences, a duplicate predicted pair, a sure set that is
\* not inside the possible set and matters, and a predicted pair outside both.
C1_Witness ==
    /\ result.fn = "compute_precision" /\ SameLength /\ Len(predicted) = 2
    /\ \E k \in DOMAIN predicted : HasDuplicate(predicted[k])
    /\ \E k \in DOMAIN predicted :
          /\ ~(set(reference[k].sure) \subseteq set(reference[k].possible))
          /\ (set(predicted[k]) \intersect set(reference[k].sure))
                 \ set(reference[k].possible) # {}
    /\ 0 < result.value[1] /\ result.value[1] < result.value[2]

\* C2: for reference and predicted of the same length compute_recall returns
\* (I, S), I the sum over the sentences of |set(predicted[k]) /\ set(sure[k])|
\* (possible plays no part) and S the sum of the sizes of the sure sets; a
\* sentence with nothing predicted and a non-empty sure set adds 0 to I and
\* the size of its sure set to S.
C2_RecallContract ==
    (result.fn = "compute_recall" /\ SameLength) =>
        /\ result.kind = "return"
        /\ result.value = <<Sum(SureMatches, Len(predicted)),
                            Sum(SureCount, Len(predicted))>>
        /\ \A k \in DOMAIN predicted :
              (Len(predicted) = 1 /\ predicted[k] = <<>>) =>
                  result.value = <<0, SureCount(k)>>

\* C2's case: a sentence with an empty predicted list and a non-empty sure
\* set, beside a sentence whose predicted pairs meet possible but not sure
\* and whose sure list repeats a pair.
C2_Witness ==
    /\ result.fn = "compute_recall" /\ SameLength /\ Len(predicted) = 2
    /\ \E k \in DOMAIN predicted : predicted[k] = <<>> /\ reference[k].sure # <<>>
    /\ \E k \in DOMAIN predicted :
          (set(predicted[k]) \intersect set(reference[k].possible))
              \ set(reference[k].sure) # {}
    /\ \E k \in DOMAIN predicted : HasDuplicate(reference[k].sure)
    /\ result.value[2] > 0

\* C3: when reference and predicted differ in length, a call of
\* compute_precision, compute_recall or compute_aer ends in a reported fatal
\* error and returns no metric computed over a prefix of the sentences.
C3_LengthMismatchIsFatal ==
    (result.fn # "none" /\ ~SameLength) => result.kind = "error"

\* C4: when the total predicted count and the total sure count are both zero
\* compute_aer ends in an explicit reported error: it returns no number and
\* does not end in an unhandled crash.
C4_DegenerateAerIsReported ==
    (/\ result.fn = "compute_aer"
     /\ SameLength
     /\ Sum(PredictedCount, Len(predicted)) + Sum(SureCount, Len(predicted)) = 0)
        => result.kind = "error"

\* C8: for inputs of equal length the numerators of compute_precision and of
\* compute_recall are non-negative and at most their denominators, and
\* whenever predicted_count + sure_count > 0 compute_aer returns a value in
\* [0, 1], its quotient being (both numerators) / (predicted_count + sure_count).
C8_MetricBounds ==
    SameLength =>
        /\ result.fn \in {"compute_precision", "compute_recall"} =>
              /\ 0 <= result.value[1]
              /\ result.value[1] <= result.value[2]
        /\ (/\ result.fn = "compute_aer"
            /\ Sum(PredictedCount, Len(predicted))
                   + Sum(SureCount, Len(predicted)) > 0) =>
              /\ result.kind = "return"
              /\ result.den = Sum(PredictedCount, Len(predicted))
                                  + Sum(SureCount, Len(predicted))
              /\ 0 <= result.num
              /\ result.num <= result.den

\* C8's case: an AER strictly between 0 and 1 over two sentences.
C8_Witness ==
    /\ result.fn = "compute_aer" /\ SameLength /\ Len(predicted) = 2
    /\ result.kind = "return"
    /\ 0 < result.num /\ result.num < result.den

(***************************************************************************)
(* preprocessing.py: extract_sentences.  A text is a sequence of           *)
(* one-character strings, so that split and int work on characters.        *)
(***************************************************************************)
\* str.split(sep): the parts between the separators, empty parts included.
RECURSIVE SplitLoop(_, _, _, _, _)
SplitLoop(s, sep, n, cur, acc) ==
    IF n > Len(s) THEN Append(acc, cur)
    ELSE IF s[n] = sep THEN SplitLoop(s, sep, n + 1, <<>>, Append(acc, cur))
    ELSE SplitLoop(s, sep, n + 1, Append(cur, s[n]), acc)

split(s, sep) == SplitLoop(s, sep, 1, <<>>, <<>>)

NonEmpty(part) == part # <<>>

\* str.split(): the runs of characters between whitespace, none of them empty.
split_ws(s) == SelectSeq(split(s, " "), NonEmpty)

DigitChars == <<"0", "1", "2", "3", "4", "5", "6", "7", "8", "9">>

IsDigit(c) == \E d \in DOMAIN DigitChars : DigitChars[d] = c

DigitValue(c) == (CHOOSE d \in DOMAIN DigitChars : DigitChars[d] = c) - 1

\* int(part) succeeds on a non-empty run of decimal digits (the texts of this
\* model hold no sign, underscore or blank inside a part) and raises
\* ValueError on anything else, the empty string included.
IsIntLiteral(part) == part # <<>> /\ \A n \in DOMAIN part : IsDigit(part[n])

RECURSIVE int(_)
int(part) ==
    IF Len(part) = 1 THEN DigitValue(part[1])
    ELSE 10 * int(SubSeq(part, 1, Len(part) - 1)) + DigitValue(part[Len(part)])

\* Lines 73 and 80: (int(i.split('-')[0]), int(i.split('-')[1])) for one
\* token.  The first element is evaluated first; parts after the second are
\* never looked at.
ParsePair(tok) ==
    LET parts == split(tok, "-")
    IN  IF ~IsIntLiteral(parts[1]) THEN [exc |-> "ValueError"]
        ELSE IF Len(parts) < 2 THEN [exc |-> "IndexError"]
        ELSE IF ~IsIntLiteral(parts[2]) THEN [exc |-> "ValueError"]
        ELSE [exc |-> None, pair |-> <<int(parts[1]), int(parts[2])>>]

\* Lines 73 and 80: the list comprehension over the tokens, left to right; the
\* first token that raises ends it.
RECURSIVE ParsePairsLoop(_, _, _)
ParsePairsLoop(toks, n, acc) ==
    IF n > Len(toks) THEN [exc |-> None, pairs |-> acc]
    ELSE LET r == ParsePair(toks[n])
         IN  IF r.exc # None THEN [exc |-> r.exc]
             ELSE ParsePairsLoop(toks, n + 1, Append(acc, r.pair))

\* Lines 69-73 and 76-80: s = text; if s is None: s = ''; s = s.split();
\* then the comprehension.
ParseAlignmentText(text) ==
    LET s == IF text = NoText THEN <<>> ELSE text
    IN  ParsePairsLoop(split_ws(s), 1, <<>>)

\* Lines 63 and 66: text.split(); a None text has no split attribute.
SplitSentenceText(text) ==
    IF text = NoText THEN [exc |-> "AttributeError"]
    ELSE [exc |-> None, tokens |-> split_ws(text)]

\* Lines 61-80: the inner loop over the segments of one block, from segment j
\* on.  loc holds the locals s1, s2, p1, p2 as they stand (they are set before
\* the outer loop, line 58-59, and by nothing else), and exc the exception
\* that ended the loop, if any.
SegmentsBody(block, j, loc) ==
    LET seg == block[j]
        sent == SplitSentenceText(seg.text)
        algn == ParseAlignmentText(seg.text)
    IN  IF seg.tag \in {"english", "czech"} /\ sent.exc # None
            THEN [loc EXCEPT !.exc = sent.exc]
        ELSE IF seg.tag \in {"sure", "possible"} /\ algn.exc # None
            THEN [loc EXCEPT !.exc = algn.exc]
        ELSE IF seg.tag = "english" THEN [loc EXCEPT !.s1 = sent.tokens]
        ELSE IF seg.tag = "czech" THEN [loc EXCEPT !.s2 = sent.tokens]
        ELSE IF seg.tag = "sure" THEN [loc EXCEPT !.p1 = algn.pairs]
        ELSE IF seg.tag = "possible" THEN [loc EXCEPT !.p2 = algn.pairs]
        ELSE loc

RECURSIVE SegmentsLoop(_, _, _)
SegmentsLoop(block, j, loc) ==
    IF j > Len(block) THEN loc
    ELSE LET next == SegmentsBody(block, j, loc)
         IN  IF next.exc # None THEN next
             ELSE SegmentsLoop(block, j + 1, next)

\* The locals after the inner loop of block i.
AfterBlock == SegmentsLoop(document[i], 1, [s1 |-> s1, s2 |-> s2, p1 |-> p1,
                                            p2 |-> p2, exc |-> None])

(***************************************************************************)
(* SpecParse: extract_sentences on bounded documents.                      *)
(***************************************************************************)
\* The largest number of sentence blocks in a document.
MaxBlocks == 2

Absent == <<"Absent">>

\* The texts of a block's segments: Absent when the block has no such
\* segment, NoText for an element without text.
EnglishTexts == {Absent, <<"a", " ", "b">>}

CzechTexts == {<<"c">>}

\* sure: "1-1", "2-2 1-2", "1-2-3" (a third part), "1" (no separator),
\* "x-1" (not an integer).
SureTexts ==
    {Absent, NoText,
     <<"1", "-", "1">>,
     <<"2", "-", "2", " ", "1", "-", "2">>,
     <<"1", "-", "2", "-", "3">>,
     <<"1">>,
     <<"x", "-", "1">>}

\* possible: "1-1 2-2", "2-x" (not an integer).
PossibleTexts ==
    {Absent, NoText,
     <<"1", "-", "1", " ", "2", "-", "2">>,
     <<"2", "-", "x">>}

Segment(tag, text) == IF text = Absent THEN <<>> ELSE <<[tag |-> tag, text |-> text]>>

Blocks ==
    {Segment("english", e) \o Segment("czech", c) \o Segment("sure", s)
         \o Segment("possible", p) :
        e \in EnglishTexts, c \in CzechTexts, s \in SureTexts, p \in PossibleTexts}

\* Lines 47-48 and 58-59: the state before the outer loop.
InitParse ==
    /\ document \in ListsUpTo(Blocks, MaxBlocks)
    /\ i = 1
    /\ s1 = <<>> /\ s2 = <<>> /\ p1 = <<>> /\ p2 = <<>>
    /\ sentence_pairs = <<>>
    /\ alignments = <<>>
    /\ parsed = [kind |-> "running"]
    /\ MetricsIdle
    /\ VocabIdle

\* Lines 60-86: one iteration of the outer loop that ends normally.
ParseBlock ==
    /\ parsed.kind = "running"
    /\ i <= Len(document)
    /\ AfterBlock.exc = None
    /\ s1' = AfterBlock.s1
    /\ s2' = AfterBlock.s2
    /\ p1' = AfterBlock.p1
    /\ p2' = AfterBlock.p2
    /\ alignments' = Append(alignments, [sure |-> p1', possible |-> p2'])
    /\ sentence_pairs' = Append(sentence_pairs, [source |-> s1', target |-> s2'])
    /\ i' = i + 1
    /\ UNCHANGED <<document, parsed, metricsVars, vocabVars>>

\* Lines 60-80: an iteration in which a segment raises.  Nothing catches the
\* exception: it leaves extract_sentences, and the lists built so far with it.
ParseBlockRaises ==
    /\ parsed.kind = "running"
    /\ i <= Len(document)
    /\ AfterBlock.exc # None
    /\ parsed' = [kind |-> "uncaught", exc |-> AfterBlock.exc]
    /\ UNCHANGED <<document, i, s1, s2, p1, p2, sentence_pairs, alignments,
                   metricsVars, vocabVars>>

\* Line 87: return sentence_pairs, alignments.
ParseReturn ==
    /\ parsed.kind = "running"
    /\ i > Len(document)
    /\ parsed' = [kind |-> "return", sentence_pairs |-> sentence_pairs,
                  alignments |-> alignments]
    /\ UNCHANGED <<document, i, s1, s2, p1, p2, sentence_pairs, alignments,
                   metricsVars, vocabVars>>

NextParse == ParseBlock \/ ParseBlockRaises \/ ParseReturn

SpecParse == InitParse /\ [][NextParse]_vars

(***************************************************************************)
(* The parser's claims.                                                    *)
(***************************************************************************)
\* The segments of a block with a tag.
SegmentsOf(block, tag) == {j \in DOMAIN block : block[j].tag = tag}

\* A block has no segment with the tag, or only ones without tokens.
NoTokensIn(block, tag) ==
    \A j \in SegmentsOf(block, tag) :
        block[j].text = NoText \/ \A n \in DOMAIN block[j].text : block[j].text[n] = " "

\* The tokens of the sure and possible segments of a block.
AlignmentTokens(block) ==
    UNION {set(split_ws(block[j].text)) :
              j \in {k \in SegmentsOf(block, "sure") \union SegmentsOf(block, "possible") :
                        block[k].text # NoText}}

\* <int>-<int>: digits, one separator, digits.
WellFormed(tok) ==
    \E n \in DOMAIN tok :
        /\ 1 < n /\ n < Len(tok)
        /\ tok[n] = "-"
        /\ \A m \in DOMAIN tok \ {n} : IsDigit(tok[m])

HasMalformedToken ==
    \E n \in DOMAIN document : \E tok \in AlignmentTokens(document[n]) : ~WellFormed(tok)

\* C5: the i-th LabeledAlignment is built from block i's own segments only: a
\* block without a sure (possible) segment, or with an empty one, yields an
\* empty sure (possible) collection whatever earlier blocks held; and the two
\* returned lists have one entry per block.
C5_AlignmentFromOwnBlock ==
    parsed.kind = "return" =>
        /\ Len(parsed.sentence_pairs) = Len(document)
        /\ Len(parsed.alignments) = Len(document)
        /\ \A n \in DOMAIN document :
              /\ NoTokensIn(document[n], "sure") => parsed.alignments[n].sure = <<>>
              /\ NoTokensIn(document[n], "possible") =>
                     parsed.alignments[n].possible = <<>>

\* C9: a sure/possible token that is not <int>-<int> (a part that is no
\* integer, no '-' separator, or parts beyond two) ends the whole parse in a
\* fatal error: nothing is returned and the token becomes no position pair.
C9_MalformedTokenIsFatal ==
    (parsed.kind # "running" /\ HasMalformedToken) => parsed.kind # "return"

(***************************************************************************)
(* preprocessing.py: get_token_to_index and tokenize_sents.  A token is a  *)
(* string; a dict is a function from its keys; an array is a sequence.     *)
(***************************************************************************)
\* list.index(x): the first position of x, here 1-based.
index(xs, x) == CHOOSE n \in DOMAIN xs : xs[n] = x /\ \A m \in 1..(n - 1) : xs[m] # x

\* Lines 111-117 and 119-125: the loop over the tokens of one sentence, from
\* token n on; acc holds the lists tokens_* and count_*.  A token's count
\* starts at 0 when it is first seen.
RECURSIVE CountSentence(_, _, _)
CountSentence(sentence, n, acc) ==
    IF n > Len(sentence) THEN acc
    ELSE LET tok == sentence[n]
         IN  IF tok \in set(acc.tokens)
             THEN LET ind == index(acc.tokens, tok)
                  IN  CountSentence(sentence, n + 1,
                          [acc EXCEPT !.count[ind] = acc.count[ind] + 1])
             ELSE CountSentence(sentence, n + 1,
                      [tokens |-> Append(acc.tokens, tok),
                       count |-> Append(acc.count, 0)])

\* Lines 106-125: the loop over sentence_pairs for one language; side is
\* "source" or "target".
RECURSIVE CountCorpus(_, _, _, _)
CountCorpus(pairs, side, k, acc) ==
    IF k > Len(pairs) THEN acc
    ELSE CountCorpus(pairs, side, k + 1, CountSentence(pairs[k][side], 1, acc))

\* Lines 132-133: np.argsort(count), the indices that put count in ascending
\* order.  The default kind is an unstable sort, so the order of the indices
\* of equal counts is the build's: a deterministic function of the array that
\* the code does not control.  tie is that order (tie[x] < tie[y]: index x
\* comes out before index y when their counts are equal), the same in every
\* call of one run.
Before(count, order, x, y) ==
    count[x] < count[y] \/ (count[x] = count[y] /\ order[x] < order[y])

SortedBy(count, order) ==
    [n \in DOMAIN count |->
        CHOOSE x \in DOMAIN count :
            Cardinality({y \in DOMAIN count : Before(count, order, y, x)}) = n - 1]

\* The order of equal counts flipped in every second call.
argsort_PerCall(count) ==
    IF Len(vocab) % 2 = 0 THEN SortedBy(count, tie)
    ELSE SortedBy(count, [x \in DOMAIN tie |-> 0 - tie[x]])

argsort(count) == SortedBy(count, tie)

\* Lines 132-133: [::-1].
Reversed_Not(xs) == xs

Reversed(xs) == [n \in DOMAIN xs |-> xs[Len(xs) + 1 - n]]

\* Lines 134-135: tokens[ind], indexing an array with an index array.
Take(xs, ind) == [n \in DOMAIN ind |-> xs[ind[n]]]

\* Lines 136-138: tokens[:freq_cutoff] when freq_cutoff is not None (an
\* absent cutoff is <<>>, a cutoff n is <<n>>, n a natural number).
Truncate(xs, cutoff) ==
    IF cutoff = <<>> THEN xs ELSE SubSeq(xs, 1, Min(cutoff[1], Len(xs)))

\* Lines 140-141: dict(zip(tokens, np.arange(len(tokens)))): a key that
\* repeats keeps its last value.
DictOfArange(tokens) ==
    [t \in set(tokens) |->
        (CHOOSE n \in DOMAIN tokens :
            tokens[n] = t /\ \A m \in (n + 1)..Len(tokens) : tokens[m] # t) - 1]

\* Lines 106-141 for one language.
TokenToIndex(pairs, side, cutoff) ==
    LET acc == CountCorpus(pairs, side, 1, [tokens |-> <<>>, count |-> <<>>])
        ind == Reversed(argsort(acc.count))
    IN  DictOfArange(Truncate(Take(acc.tokens, ind), cutoff))

\* Lines 90-141: (source_dict, target_dict).
get_token_to_index(pairs, cutoff) ==
    <<TokenToIndex(pairs, "source", cutoff), TokenToIndex(pairs, "target", cutoff)>>

\* Lines 163-168 and 172-177: the loop over the tokens of one side, from token
\* n on; the first token that is no key of the dict sets not_tok and ends it.
TokenizeSide_SkipUnknown(sentence, dict, n, arr) ==
    LET Known(tok) == tok \in DOMAIN dict
        known == SelectSeq(sentence, Known)
    IN  [not_tok |-> FALSE, arr |-> [m \in DOMAIN known |-> dict[known[m]]]]

RECURSIVE TokenizeSide(_, _, _, _)
TokenizeSide(sentence, dict, n, arr) ==
    IF n > Len(sentence) THEN [not_tok |-> FALSE, arr |-> arr]
    ELSE IF sentence[n] \in DOMAIN dict
         THEN TokenizeSide(sentence, dict, n + 1, Append(arr, dict[sentence[n]]))
         ELSE [not_tok |-> TRUE, arr |-> arr]

\* Lines 158-182: the loop of tokenize_sents over sentence_pairs, from pair k
\* on.
RECURSIVE TokenizeLoop(_, _, _, _, _)
TokenizeLoop(pairs, source_dict, target_dict, k, answ) ==
    IF k > Len(pairs) THEN answ
    ELSE LET src == TokenizeSide(pairs[k].source, source_dict, 1, <<>>)
             tgt == TokenizeSide(pairs[k].target, target_dict, 1, <<>>)
         IN  IF src.not_tok THEN TokenizeLoop(pairs, source_dict, target_dict, k + 1, answ)
             ELSE IF tgt.not_tok
                 THEN TokenizeLoop(pairs, source_dict, target_dict, k + 1, answ)
             ELSE TokenizeLoop(pairs, source_dict, target_dict, k + 1,
                      Append(answ, [source_tokens |-> src.arr,
                                    target_tokens |-> tgt.arr]))

tokenize_sents(pairs, source_dict, target_dict) ==
    TokenizeLoop(pairs, source_dict, target_dict, 1, <<>>)

(***************************************************************************)
(* SpecVocab: the vocabulary built from a bounded corpus, twice, and the   *)
(* corpus tokenized with it.                                               *)
(***************************************************************************)
\* The largest number of sentence pairs in the corpus.
MaxPairs == 2

\* The largest freq_cutoff.
MaxCutoff == 2

\* The number of calls of get_token_to_index in one run.
MaxBuilds == 2

\* The sentences of the corpus: tokens that tie, tokens that do not, an empty
\* sentence.
SourceSentences == {<<>>, <<"b", "a">>, <<"a", "b", "c">>, <<"c", "b", "c">>}

TargetSentences == {<<"x">>, <<"y", "x">>}

\* preprocessing.py, lines 7-13: SentencePair(source, target).
SentencePair == [source : SourceSentences, target : TargetSentences]

\* The largest number of distinct tokens of one language.
MaxTypes ==
    LET Types(S) == Cardinality(UNION {set(x) : x \in S})
    IN  IF Types(SourceSentences) >= Types(TargetSentences)
        THEN Types(SourceSentences) ELSE Types(TargetSentences)

InitVocab ==
    /\ sentence_pairs \in ListsUpTo(SentencePair, MaxPairs)
    /\ freq_cutoff \in {<<>>} \union {<<n>> : n \in 1..MaxCutoff}
    /\ tie \in Permutations(1..MaxTypes)
    /\ vocab = <<>>
    /\ tokenized = [kind |-> "idle"]
    /\ alignments = <<>>
    /\ document = <<>> /\ i = 0
    /\ s1 = <<>> /\ s2 = <<>> /\ p1 = <<>> /\ p2 = <<>>
    /\ parsed = [kind |-> "idle"]
    /\ MetricsIdle

\* A call of get_token_to_index(sentence_pairs, freq_cutoff).
BuildVocab ==
    /\ Len(vocab) < MaxBuilds
    /\ vocab' = Append(vocab, get_token_to_index(sentence_pairs, freq_cutoff))
    /\ UNCHANGED <<sentence_pairs, freq_cutoff, tie, tokenized, parserVars,
                   metricsVars>>

\* A call of tokenize_sents(sentence_pairs, source_dict, target_dict) with the
\* dicts of the first build.
Tokenize ==
    /\ vocab # <<>>
    /\ tokenized.kind = "idle"
    /\ tokenized' = [kind |-> "return",
                     value |-> tokenize_sents(sentence_pairs, vocab[1][1], vocab[1][2])]
    /\ UNCHANGED <<sentence_pairs, freq_cutoff, tie, vocab, parserVars, metricsVars>>

NextVocab == BuildVocab \/ Tokenize

SpecVocab == InitVocab /\ [][NextVocab]_vars

(***************************************************************************)
(* The claims of the vocabulary builder and of the tokenizer.              *)
(***************************************************************************)
Sides == {"source", "target"}

SideNo(side) == IF side = "source" THEN 1 ELSE 2

\* All the tokens of one language in corpus order.
RECURSIVE Flatten(_, _, _)
Flatten(pairs, side, k) ==
    IF k > Len(pairs) THEN <<>> ELSE pairs[k][side] \o Flatten(pairs, side, k + 1)

Stream(side) == Flatten(sentence_pairs, side, 1)

\* The distinct tokens of one language.
Types(side) == set(Stream(side))

\* For each distinct token of a stream: how often it occurs, where it first
\* occurs, and its rank among the distinct tokens by first occurrence.
Occurrences(stream) ==
    [t \in set(stream) |-> Cardinality({n \in DOMAIN stream : stream[n] = t})]

FirstSeen(stream) ==
    [t \in set(stream) |->
        CHOOSE n \in DOMAIN stream : stream[n] = t /\ \A m \in 1..(n - 1) : stream[m] # t]

FirstSeenRank(stream) ==
    LET first == FirstSeen(stream)
    IN  [t \in set(stream) |-> 1 + Cardinality({u \in set(stream) : first[u] < first[t]})]

ExpectedSize(side) ==
    IF freq_cutoff = <<>> THEN Cardinality(Types(side))
    ELSE Min(freq_cutoff[1], Cardinality(Types(side)))

\* The corpus with the sentences of the other language emptied.
OnlySide(side) ==
    [k \in DOMAIN sentence_pairs |->
        [s \in Sides |-> IF s = side THEN sentence_pairs[k][s] ELSE <<>>]]

\* C7: for each language the mapping's keys are distinct tokens of that
\* language's sentences and its values are exactly 0..k-1, k the number of
\* distinct tokens without a cutoff and min(freq_cutoff, that number) with
\* one; a token with a strictly higher count has a smaller index; with a
\* cutoff every kept token occurs at least as often as every dropped one; and
\* a language's vocabulary depends on its own sentences only.
C7_DenseFrequencyRanked ==
    \A b \in DOMAIN vocab : \A side \in Sides :
        LET D == vocab[b][SideNo(side)]
            occ == Occurrences(Stream(side))
        IN  /\ DOMAIN D \subseteq Types(side)
            /\ Cardinality(DOMAIN D) = ExpectedSize(side)
            /\ {D[t] : t \in DOMAIN D} = 0..(ExpectedSize(side) - 1)
            /\ \A t \in DOMAIN D : \A u \in DOMAIN D :
                  occ[t] > occ[u] => D[t] < D[u]
            /\ \A t \in DOMAIN D : \A u \in Types(side) \ DOMAIN D :
                  occ[t] >= occ[u]
            /\ D = TokenToIndex(OnlySide(side), side, freq_cutoff)

\* C7's case: a cutoff that drops tokens of a language with three distinct
\* tokens of two different counts.
C7_Witness ==
    /\ vocab # <<>>
    /\ freq_cutoff # <<>>
    /\ Cardinality(Types("source")) = 3
    /\ Cardinality(DOMAIN vocab[1][1]) = 2
    /\ LET occ == Occurrences(Stream("source"))
       IN  /\ \E t \in DOMAIN vocab[1][1] : \E u \in DOMAIN vocab[1][1] :
                 occ[t] > occ[u]
           /\ \E t \in DOMAIN vocab[1][1] : \E u \in Types("source") \ DOMAIN vocab[1][1] :
                 occ[t] > occ[u]

Covered(pair) ==
    /\ \A n \in DOMAIN pair.source : pair.source[n] \in DOMAIN vocab[1][1]
    /\ \A n \in DOMAIN pair.target : pair.target[n] \in DOMAIN vocab[1][2]

=============================================================================
